---------------------------- MODULE Spec2Model ----------------------------
(***************************************************************************)
(* Model of the RAG backend: document ingestion (DocumentProcessor), the   *)
(* similarity search and query orchestration (RAGService) and the routes   *)
(* that start them, over the persistence layer's tables.                   *)
(***************************************************************************)
EXTENDS Integers, Sequences, FiniteSets, Bags, TLC

VARIABLES docs, chunks, nextDocId, sessions, messages, runs, nRuns, qry, nQueries, srch,
          strm, resp

vars == <<docs, chunks, nextDocId, sessions, messages, runs, nRuns, qry, nQueries, srch,
          strm, resp>>

---------------------------------------------------------------------------
(* Bounds of the model *)

MaxRuns == 2        \* batch ingestion runs started in one behaviour
MaxQueries == 2     \* query calls started in one behaviour
MaxBatch == 2       \* longest document id list of a select request
MaxChunks == 2      \* most chunks the splitter yields for a fetched text
MaxTopK == 2        \* largest top_k the search is called with directly
MaxFragments == 2   \* most text fragments the model streams for one answer

(* Program constants *)

TopKDefault == 5        \* top_k: int = 5
ThresholdDefault == 3   \* similarity_threshold: float = 0.3, in tenths
TitleLimit == 50        \* question[:50]
PreviewLimit == 200     \* chunk["content"][:200]
ChunkSize == 1000       \* chunk_size=1000

None == "None"
NULL == <<>>           \* a chunk row's embedding column before it is set

Users == {"u1", "u2"}
GoogleDocIds == {"g1", "g2"}
Contents == 0 .. MaxChunks
\* A text of n characters.
Text(n) == [i \in 1 .. n |-> "a"]
Ellipsis == <<".", ".", ".">>
\* A short question and one longer than a session title.
Questions == {Text(2), Text(TitleLimit + 1)}
RunIds == {1, 2}
SeqRuns == {1}
DocRowIds == 1 .. (MaxRuns * MaxBatch)

Min(a, b) == IF a <= b THEN a ELSE b
Abs(x) == IF x < 0 THEN -x ELSE x

---------------------------------------------------------------------------
(* External collaborators *)

\* What the document source returns for a readable document: title and text.
\* Each text the source may hold comes with the title it has at that time.
TitleOf(content) == IF content = MaxChunks THEN "t2" ELSE "t1"
DriveData == {[title |-> TitleOf(c), content |-> c] : c \in Contents}

\* RecursiveCharacterTextSplitter.split_text: an ordered list of chunk texts,
\* empty for an empty text.  A text is identified by its content value c and
\* yields c pieces; piece i of text c is the chunk text <<c, i>>.
split_text(content) == [i \in 1 .. content |-> <<content, i - 1>>]

\* The length of a chunk text: every piece but the last fills the chunk size.
ChunkLen(text) == IF text[2] + 1 < text[1] THEN ChunkSize ELSE 120

\* The embedding of a text, a point on a line (a deterministic provider).
embed_chunk(text) == <<(text[1] + text[2]) % 3>>
embed_question(q) == <<Len(q) % 3>>
QueryVectors == {<<0>>, <<1>>, <<2>>}

\* 1 - (dc.embedding <=> $1::vector), in tenths.
Similarity(qe, e) == 10 - 4 * Abs(qe[1] - e[1])

---------------------------------------------------------------------------
(* Persistence: Document and DocumentChunk tables *)

DocByGoogleId(g) == {d \in docs : d.googleDocId = g}
DocByRowId(id) == {d \in docs : d.id = id}
\* find_unique(where googleDocId): the row, as a set of at most one element.
FindUnique(g) == DocByGoogleId(g)
RowIds(ds) == {d.id : d \in ds}

\* The chunk table is a bag of rows: two rows may agree on every column.
ChunksOf(id) == [r \in {x \in BagToSet(chunks) : x.documentId = id} |-> chunks[r]]
ChunksOfAll(ids) == [r \in {x \in BagToSet(chunks) : x.documentId \in ids} |-> chunks[r]]
ChunkCount(id) == BagCardinality(ChunksOf(id))
OrdinalCount(id, k) ==
  BagCardinality([r \in {x \in BagToSet(chunks) : x.documentId = id /\ x.chunkIndex = k} |-> chunks[r]])

\* chunkIndex is left out of the row's data and takes the column's default.
ChunkRow_NoIndex(id, k, text, emb) ==
  [documentId |-> id, chunkIndex |-> 0, content |-> text, embedding |-> emb]

\* data={"documentId": document.id, "content": chunk_text, "chunkIndex": idx}
ChunkRow(id, k, text, emb) ==
  [documentId |-> id, chunkIndex |-> k, content |-> text, embedding |-> emb]

DeleteManyChunks_KeepsRows(ids) == chunks

\* delete_many(where documentId in ids); also the cascade of a document delete.
DeleteManyChunks(ids) ==
  [r \in {x \in BagToSet(chunks) : x.documentId \notin ids} |-> chunks[r]]

UpdateDoc(ids, data) == {IF d.id \in ids THEN data[d] ELSE d : d \in docs}

---------------------------------------------------------------------------
(* DocumentProcessor: one batch run per slot *)

\* process_documents has no return statement: its caller gets no list of ids.
NoReport == <<>>

IdleRun ==
  [pc |-> "idle", user |-> None, ids |-> <<>>, is_refresh |-> FALSE, i |-> 0,
   doc_data |-> None, existing_doc |-> {}, document |-> {}, idx |-> 0,
   attempted |-> <<>>, outcomes |-> <<>>, skipped |-> <<>>, returned |-> NoReport]

CurId(r) == runs[r].ids[runs[r].i]
CurChunks(r) == split_text(runs[r].doc_data.content)
DocumentId(r) == CHOOSE id \in runs[r].document : TRUE

\* The for loop of process_documents moves to the next id, or the call ends.
NextDoc(rec, outcome) ==
  LET base == [rec EXCEPT !.outcomes = Append(@, outcome),
                          !.doc_data = None, !.existing_doc = {},
                          !.document = {}, !.idx = 0]
  IN IF rec.i < Len(rec.ids)
       THEN [base EXCEPT !.i = rec.i + 1, !.pc = "fetch",
                         !.attempted = Append(@, rec.ids[rec.i + 1])]
       ELSE [base EXCEPT !.pc = "done", !.returned = NoReport]

\* The exception escapes the loop: the remaining ids are never attempted.
CaughtFailure_Aborts(rec, stage) ==
  [rec EXCEPT !.skipped = Append(@, rec.ids[rec.i]), !.outcomes = Append(@, "failed"),
              !.pc = "raised"]

\* The failure is swallowed without a log record.
CaughtFailure_Silent(rec, stage) == NextDoc(rec, "failed")

\* except Exception in process_documents: log the id and continue.
CaughtFailure(rec, stage) ==
  NextDoc([rec EXCEPT !.skipped = Append(@, rec.ids[rec.i])], "failed")

StartRun(r, user, ids, refresh) ==
  /\ runs[r].pc = "idle"
  /\ nRuns < MaxRuns
  /\ nRuns' = nRuns + 1
  /\ runs' = [runs EXCEPT ![r] =
       [IdleRun EXCEPT !.pc = "fetch", !.user = user, !.ids = ids,
                       !.is_refresh = refresh, !.i = 1,
                       !.attempted = <<ids[1]>>]]
  /\ UNCHANGED <<docs, chunks, nextDocId, sessions, messages, qry, nQueries, srch, strm, resp>>

BatchLists == UNION {[1 .. n -> GoogleDocIds] : n \in 1 .. MaxBatch}

\* POST /select queues process_documents(request.document_ids, drive_service).
select_documents(r) ==
  \E user \in Users, ids \in BatchLists : StartRun(r, user, ids, FALSE)

\* POST /select with a list of one document id.
select_one_document(r) ==
  \E user \in Users, g \in GoogleDocIds : StartRun(r, user, <<g>>, FALSE)

\* The stored documents of a user as a list, as find_many returns them.
RECURSIVE ListsOf(_)
ListsOf(S) ==
  IF S = {} THEN {<<>>}
  ELSE UNION {{<<x>> \o s : s \in ListsOf(S \ {x})} : x \in S}

\* POST /refresh queues process_documents(ids of the user's documents, True).
refresh_documents(r) ==
  \E user \in Users :
    LET mine == {d.googleDocId : d \in {x \in docs : x.userId = user}}
    IN /\ mine # {}
       /\ \E ids \in ListsOf(mine) : StartRun(r, user, ids, TRUE)

IngestFrame == UNCHANGED <<nextDocId, sessions, messages, nRuns, qry, nQueries, srch, strm, resp>>

\* files().get and get_document_content succeed.
FetchOk(r) ==
  /\ runs[r].pc = "fetch"
  /\ \E data \in DriveData :
       runs' = [runs EXCEPT ![r].pc = "find", ![r].doc_data = data]
  /\ UNCHANGED <<docs, chunks>>
  /\ IngestFrame

\* The document row is written before the source is read: a failed fetch
\* leaves a new row, or a stored row reset to unprocessed.
FetchFail_WritesFirst(r) ==
  /\ runs[r].pc = "fetch"
  /\ runs' = [runs EXCEPT ![r] = CaughtFailure(runs[r], <<"fetch">>)]
  /\ IF DocByGoogleId(CurId(r)) = {}
       THEN /\ docs' = docs \cup {[id |-> nextDocId, userId |-> runs[r].user,
                                   googleDocId |-> CurId(r), title |-> TitleOf(0),
                                   content |-> 0, isProcessed |-> FALSE]}
            /\ nextDocId' = nextDocId + 1
       ELSE /\ docs' = {IF d.googleDocId = CurId(r) THEN [d EXCEPT !.isProcessed = FALSE] ELSE d
                        : d \in docs}
            /\ UNCHANGED nextDocId
  /\ UNCHANGED <<chunks, sessions, messages, nRuns, qry, nQueries, srch, strm, resp>>

\* The metadata fetch fails, the MIME type is unsupported, or the content
\* fetch fails: the exception leaves _process_single_document.
FetchFail(r) ==
  /\ runs[r].pc = "fetch"
  /\ \E kind \in {"metadata", "unsupported", "content"} :
       runs' = [runs EXCEPT ![r] = CaughtFailure(runs[r], <<"fetch", kind>>)]
  /\ UNCHANGED <<docs, chunks>>
  /\ IngestFrame

SkipsExisting_Never(existing, refresh) == FALSE

\* if existing_doc and not is_refresh: return
SkipsExisting(existing, refresh) == existing # {} /\ ~refresh

FindExisting(r) ==
  /\ runs[r].pc = "find"
  /\ LET existing == FindUnique(CurId(r))
     IN runs' = [runs EXCEPT ![r] =
          IF SkipsExisting(existing, runs[r].is_refresh)
            THEN NextDoc(runs[r], "exists")
            ELSE [runs[r] EXCEPT !.existing_doc = RowIds(existing),
                                 !.pc = IF existing = {} THEN "create_doc" ELSE "delete_chunks"]]
  /\ UNCHANGED <<docs, chunks>>
  /\ IngestFrame

\* db.documentchunk.delete_many(where documentId = existing_doc.id)
DeleteOldChunks(r) ==
  /\ runs[r].pc = "delete_chunks"
  /\ chunks' = DeleteManyChunks(runs[r].existing_doc)
  /\ runs' = [runs EXCEPT ![r].pc = "update_doc"]
  /\ UNCHANGED docs
  /\ IngestFrame

Overwritten_KeepsFlag(d, data) ==
  [d EXCEPT !.title = data.title, !.content = data.content]

\* data = {title, content, metadata, isProcessed: False}
Overwritten(d, data) ==
  [d EXCEPT !.title = data.title, !.content = data.content, !.isProcessed = FALSE]

\* db.document.update(title, content, isProcessed False); the result is None
\* when the row is gone.
UpdateExisting(r) ==
  /\ runs[r].pc = "update_doc"
  /\ LET ids == runs[r].existing_doc
         data == runs[r].doc_data
     IN /\ docs' = UpdateDoc(ids, [d \in docs |-> Overwritten(d, data)])
        /\ runs' = [runs EXCEPT ![r].pc = "split",
                                ![r].document = RowIds({d \in docs : d.id \in ids})]
  /\ UNCHANGED chunks
  /\ IngestFrame

\* db.document.create(userId, googleDocId, ..., isProcessed False); googleDocId
\* is unique, so a second row for it is refused.
CreateNew(r) ==
  /\ runs[r].pc = "create_doc"
  /\ IF DocByGoogleId(CurId(r)) # {}
       THEN /\ runs' = [runs EXCEPT ![r] = CaughtFailure(runs[r], <<"create_doc">>)]
            /\ UNCHANGED <<docs, nextDocId>>
       ELSE /\ docs' = docs \cup {[id |-> nextDocId, userId |-> runs[r].user,
                                   googleDocId |-> CurId(r),
                                   title |-> runs[r].doc_data.title,
                                   content |-> runs[r].doc_data.content,
                                   isProcessed |-> FALSE]}
            /\ nextDocId' = nextDocId + 1
            /\ runs' = [runs EXCEPT ![r].pc = "split", ![r].document = {nextDocId}]
  /\ UNCHANGED <<chunks, sessions, messages, nRuns, qry, nQueries, srch, strm, resp>>

\* How a call that reached its end is recorded: through the update branch
\* of an existing document, or through the create branch.
Completed(rec) == IF rec.existing_doc # {} THEN "refreshed" ELSE "created"

\* The flag is left as the create or update had set it.
MarkedProcessed_Unset(d) == d

\* What is written when the work of one document is complete.
MarkedProcessed(d) == [d EXCEPT !.isProcessed = TRUE]

\* chunks = split_text(content); if not chunks: mark processed and return.
SplitDocument(r) ==
  /\ runs[r].pc = "split"
  /\ IF CurChunks(r) = <<>>
       THEN IF runs[r].document = {}
              THEN /\ runs' = [runs EXCEPT ![r] = CaughtFailure(runs[r], <<"split">>)]
                   /\ UNCHANGED docs
              ELSE /\ docs' = UpdateDoc(runs[r].document, [d \in docs |-> MarkedProcessed(d)])
                   /\ runs' = [runs EXCEPT ![r] = NextDoc(runs[r], Completed(runs[r]))]
       ELSE /\ runs' = [runs EXCEPT ![r].pc = "embed"]
            /\ UNCHANGED docs
  /\ UNCHANGED chunks
  /\ IngestFrame

\* embeddings = embed_documents(chunks) returns one vector per chunk.
EmbedOk(r) ==
  /\ runs[r].pc = "embed"
  /\ runs' = [runs EXCEPT ![r].pc = "store_chunk", ![r].idx = 0]
  /\ UNCHANGED <<docs, chunks>>
  /\ IngestFrame

\* The batch embedding call raises.
EmbedFail(r) ==
  /\ runs[r].pc = "embed"
  /\ runs' = [runs EXCEPT ![r] = CaughtFailure(runs[r], <<"embed">>)]
  /\ UNCHANGED <<docs, chunks>>
  /\ IngestFrame

\* db.documentchunk.create(documentId, content, chunkIndex = idx); the row
\* needs its parent document.
StoreChunk(r) ==
  /\ runs[r].pc = "store_chunk"
  /\ IF runs[r].document = {} \/ RowIds(docs) \cap runs[r].document = {}
       THEN /\ runs' = [runs EXCEPT ![r] = CaughtFailure(runs[r], <<"store_chunk">>)]
            /\ UNCHANGED chunks
       ELSE /\ chunks' = chunks (+) SetToBag({ChunkRow(DocumentId(r), runs[r].idx,
                                               CurChunks(r)[runs[r].idx + 1], NULL)})
            /\ runs' = [runs EXCEPT ![r].pc = "store_emb"]
  /\ UNCHANGED docs
  /\ IngestFrame

\* UPDATE "DocumentChunk" SET embedding = ... WHERE id = chunk.id
StoreEmbedding(r) ==
  /\ runs[r].pc = "store_emb"
  /\ LET text == CurChunks(r)[runs[r].idx + 1]
         bare == ChunkRow(DocumentId(r), runs[r].idx, text, NULL)
         full == ChunkRow(DocumentId(r), runs[r].idx, text, embed_chunk(text))
     IN chunks' = IF BagIn(bare, chunks)
                    THEN (chunks (-) SetToBag({bare})) (+) SetToBag({full})
                    ELSE chunks
  /\ runs' = [runs EXCEPT ![r].idx = @ + 1,
                          ![r].pc = IF runs[r].idx + 1 < Len(CurChunks(r))
                                      THEN "store_chunk" ELSE "mark"]
  /\ UNCHANGED docs
  /\ IngestFrame

\* db.document.update(isProcessed True) after the last chunk.
MarkProcessed(r) ==
  /\ runs[r].pc = "mark"
  /\ docs' = UpdateDoc(runs[r].document, [d \in docs |-> MarkedProcessed(d)])
  /\ runs' = [runs EXCEPT ![r] = NextDoc(runs[r], Completed(runs[r]))]
  /\ UNCHANGED chunks
  /\ IngestFrame

\* A persistence call of the current step raises (connection, constraint).
DbCallPcs ==
  {"find", "delete_chunks", "update_doc", "create_doc", "store_chunk", "store_emb", "mark"}

PersistenceFail(r) ==
  /\ \/ runs[r].pc \in DbCallPcs
     \/ runs[r].pc = "split" /\ CurChunks(r) = <<>>
  /\ runs' = [runs EXCEPT ![r] = CaughtFailure(runs[r], <<runs[r].pc>>)]
  /\ UNCHANGED <<docs, chunks>>
  /\ IngestFrame

IngestStep(r) ==
  \/ FetchOk(r)
  \/ FetchFail(r)
  \/ FindExisting(r)
  \/ DeleteOldChunks(r)
  \/ UpdateExisting(r)
  \/ CreateNew(r)
  \/ SplitDocument(r)
  \/ EmbedOk(r)
  \/ EmbedFail(r)
  \/ StoreChunk(r)
  \/ StoreEmbedding(r)
  \/ MarkProcessed(r)
  \/ PersistenceFail(r)

\* process_documents returns; the background task is over.
ReturnRun(r) ==
  /\ runs[r].pc = "done"
  /\ runs' = [runs EXCEPT ![r] = IdleRun]
  /\ UNCHANGED <<docs, chunks>>
  /\ IngestFrame

\* DELETE /documents/{id}: the caller's own document and, by cascade, its chunks.
delete_document ==
  /\ \E user \in Users, id \in DocRowIds :
       /\ \E d \in docs : d.id = id /\ d.userId = user
       /\ docs' = {d \in docs : d.id # id}
       /\ chunks' = DeleteManyChunks({id})
  /\ UNCHANGED <<nextDocId, sessions, messages, runs, nRuns, qry, nQueries, srch, strm, resp>>

---------------------------------------------------------------------------
(* RAGService._search_similar_chunks *)

CandidateFilter_AnyOwner(d, user) == d.isProcessed

\* find_many(where userId = user, isProcessed = True)
CandidateFilter(d, user) == d.userId = user /\ d.isProcessed
UserDocuments(user) == {d \in docs : CandidateFilter(d, user)}

\* The rows the WHERE clause keeps, each copy of a row on its own:
\* dc."documentId" = ANY($2) AND dc.embedding IS NOT NULL, joined to its document.
InWhereClause(row, ids) == row.documentId \in ids /\ row.embedding # NULL
Eligible(ids) ==
  UNION {{<<row, n>> : n \in 1 .. chunks[row]}
         : row \in {x \in BagToSet(chunks) :
                      InWhereClause(x, ids) /\ DocByRowId(x.documentId) # {}}}

ResultRow(p, qe) ==
  [documentId |-> p[1].documentId, content |-> p[1].content,
   chunkIndex |-> p[1].chunkIndex,
   documentTitle |-> (CHOOSE d \in DocByRowId(p[1].documentId) : TRUE).title,
   similarity |-> Similarity(qe, p[1].embedding), copy |-> p[2]]

\* ORDER BY dc.embedding <=> $1 LIMIT $3: every order the database may return,
\* rows at the same distance in any order.
RECURSIVE OrderedLimit(_, _, _)
OrderedLimit(rows, qe, limit) ==
  IF rows = {} \/ limit = 0 THEN {<<>>}
  ELSE LET nearest == {p \in rows : \A o \in rows :
                         Similarity(qe, p[1].embedding) >= Similarity(qe, o[1].embedding)}
       IN UNION {{<<ResultRow(p, qe)>> \o rest : rest \in OrderedLimit(rows \ {p}, qe, limit - 1)}
                 : p \in nearest}

QueryRaw(ids, qe, limit) == OrderedLimit(Eligible(ids), qe, limit)

\* [r for r in results if r.get('similarity', 0) >= similarity_threshold]
ClearsThreshold(sim, threshold) == sim >= threshold
FilterResults(results, threshold) ==
  SelectSeq(results, LAMBDA r : ClearsThreshold(r.similarity, threshold))

Truncate_KeepsAll(results, top_k) == results

\* filtered_results[:top_k]
Truncate(results, top_k) == SubSeq(results, 1, Min(top_k, Len(results)))

\* Only the first row is fetched.
FetchLimit_One(top_k) == 1

\* query_raw(query, embedding, document_ids, top_k * 2)
FetchLimit(top_k) == top_k * 2

SearchOver(ids, qe, top_k, threshold) ==
  {Truncate(FilterResults(res, threshold), top_k) : res \in QueryRaw(ids, qe, FetchLimit(top_k))}

\* The whole search on one database state.
search_similar_chunks(user, qe, top_k, threshold) ==
  IF UserDocuments(user) = {} THEN {<<>>}
  ELSE SearchOver(RowIds(UserDocuments(user)), qe, top_k, threshold)

---------------------------------------------------------------------------
(* RAGService.query: one call per slot *)

QryIds == {1, 2}
SeqQrys == {1}

IdleQuery ==
  [pc |-> "idle", qid |-> 0, user |-> None, question |-> <<>>, session_id |-> {},
   given |-> FALSE, user_documents |-> {}, results |-> <<>>, prompt |-> None,
   found |-> FALSE, sources |-> <<>>, response |-> None]

QueryFrame == UNCHANGED <<docs, chunks, nextDocId, runs, nRuns, srch, strm, resp>>

\* The session ids a request may carry: none, a stored one, one that is not stored.
SessionArgs == {{}} \cup {{s.id} : s \in sessions} \cup {{0}}

\* POST /query: RAGService(current_user).query(question, session_id)
query_chatbot(q) ==
  /\ qry[q].pc = "idle"
  /\ nQueries < MaxQueries
  /\ nQueries' = nQueries + 1
  /\ \E user \in Users, question \in Questions, sid \in SessionArgs :
       qry' = [qry EXCEPT ![q] =
         [IdleQuery EXCEPT !.pc = IF sid = {} THEN "session" ELSE "user_msg",
                           !.qid = nQueries + 1, !.user = user, !.question = question,
                           !.session_id = sid, !.given = (sid # {})]]
  /\ UNCHANGED <<sessions, messages>>
  /\ QueryFrame

\* The whole question is taken as the title.
SessionTitle_Whole(question) == question

\* question[:50] + "..." if len(question) > 50 else question
SessionTitle(question) ==
  IF Len(question) > TitleLimit THEN SubSeq(question, 1, TitleLimit) \o Ellipsis ELSE question

\* if not session_id: db.chatsession.create(userId, title)
CreateSession(q) ==
  /\ qry[q].pc = "session"
  /\ sessions' = sessions \cup {[id |-> qry[q].qid, userId |-> qry[q].user,
                                 title |-> SessionTitle(qry[q].question), touched |-> 0]}
  /\ qry' = [qry EXCEPT ![q].session_id = {qry[q].qid}, ![q].pc = "user_msg"]
  /\ UNCHANGED <<messages, nQueries>>
  /\ QueryFrame

Message(sid, role, content, sources, qid) ==
  [sessionId |-> sid, role |-> role, content |-> content, sources |-> sources, qid |-> qid]

SessionId(q) == CHOOSE id \in qry[q].session_id : TRUE
SessionExists(q) == \E s \in sessions : s.id \in qry[q].session_id

\* The exception leaves query: the route answers 500, without a result.
Raised(rec) == [rec EXCEPT !.pc = "failed"]

MessagesAfterRaise_RolledBack(msgs, qid) == SelectSeq(msgs, LAMBDA m : m.qid # qid)

\* The except clause stores an apology as the call's ASSISTANT message.
MessagesAfterRaise_StoresReply(msgs, qid) ==
  Append(msgs, Message(0, "ASSISTANT", <<"error">>, <<>>, qid))

\* except Exception: log and raise; nothing written so far is undone and
\* nothing is written.
MessagesAfterRaise(msgs, qid) == msgs

\* db.chatmessage.create(sessionId, role USER, content question); the row
\* needs its session.
SaveUserMessage(q) ==
  /\ qry[q].pc = "user_msg"
  /\ IF SessionExists(q)
       THEN /\ messages' = Append(messages,
                 Message(SessionId(q), "USER", qry[q].question, <<>>, qry[q].qid))
            /\ qry' = [qry EXCEPT ![q].pc = "embed"]
       ELSE /\ qry' = [qry EXCEPT ![q] = Raised(qry[q])]
            /\ UNCHANGED messages
  /\ UNCHANGED <<sessions, nQueries>>
  /\ QueryFrame

\* query_embedding = embed_text(question)
EmbedQuestion(q) ==
  /\ qry[q].pc = "embed"
  /\ qry' = [qry EXCEPT ![q].pc = "search_docs"]
  /\ UNCHANGED <<sessions, messages, nQueries>>
  /\ QueryFrame

\* user_documents = find_many(...); if not user_documents: return []
SearchDocs(q) ==
  /\ qry[q].pc = "search_docs"
  /\ LET found == UserDocuments(qry[q].user)
     IN qry' = [qry EXCEPT ![q].user_documents = found,
                           ![q].pc = IF found = {} THEN "generate" ELSE "search_chunks"]
  /\ UNCHANGED <<sessions, messages, nQueries>>
  /\ QueryFrame

\* results = query_raw(...); return filtered_results[:top_k]
SearchChunks(q) ==
  /\ qry[q].pc = "search_chunks"
  /\ \E res \in SearchOver(RowIds(qry[q].user_documents), embed_question(qry[q].question),
                           TopKDefault, ThresholdDefault) :
       qry' = [qry EXCEPT ![q].results = res, ![q].pc = "generate"]
  /\ UNCHANGED <<sessions, messages, nQueries>>
  /\ QueryFrame

\* The exception of the search leaves query as well.
SearchCaught_Raises(rec) == Raised(rec)

\* except Exception in _search_similar_chunks: log and return []
SearchCaught(rec) == [rec EXCEPT !.results = <<>>, !.pc = "generate"]

\* find_many or query_raw raises inside _search_similar_chunks.
SearchFail(q) ==
  /\ qry[q].pc \in {"search_docs", "search_chunks"}
  /\ qry' = [qry EXCEPT ![q] = SearchCaught(qry[q])]
  /\ UNCHANGED <<sessions, messages, nQueries>>
  /\ QueryFrame

HasRelevant_Always(results) == TRUE

\* if relevant_chunks: grounded prompt, found_in_documents = True
\* else: fallback prompt, found_in_documents = False
HasRelevant(results) == results # <<>>

\* chunkText = content[:200] + "..." if len(content) > 200 else content:
\* the text shown, by the chunk it is cut from and its length.
Preview(text) ==
  [of |-> text,
   len |-> IF ChunkLen(text) > PreviewLimit THEN PreviewLimit + Len(Ellipsis) ELSE ChunkLen(text)]

Source(r) ==
  [documentId |-> r.documentId, documentTitle |-> r.documentTitle,
   chunkText |-> Preview(r.content), similarity |-> r.similarity]

GenerateAnswer(q) ==
  /\ qry[q].pc = "generate"
  /\ qry' = [qry EXCEPT ![q].prompt = IF HasRelevant(qry[q].results) THEN "context" ELSE "fallback",
                        ![q].found = HasRelevant(qry[q].results),
                        ![q].sources = [k \in 1 .. Len(qry[q].results) |-> Source(qry[q].results[k])],
                        ![q].pc = "assistant_msg"]
  /\ UNCHANGED <<sessions, messages, nQueries>>
  /\ QueryFrame

\* db.chatmessage.create(sessionId, role ASSISTANT, content answer, sources)
SaveAssistantMessage(q) ==
  /\ qry[q].pc = "assistant_msg"
  /\ IF SessionExists(q)
       THEN /\ messages' = Append(messages,
                 Message(SessionId(q), "ASSISTANT", <<qry[q].prompt>>, qry[q].sources, qry[q].qid))
            /\ qry' = [qry EXCEPT ![q].pc = "touch"]
       ELSE /\ qry' = [qry EXCEPT ![q] = Raised(qry[q])]
            /\ messages' = MessagesAfterRaise(messages, qry[q].qid)
  /\ UNCHANGED <<sessions, nQueries>>
  /\ QueryFrame

\* db.chatsession.update(where id, updatedAt = now); then return the result.
TouchSession(q) ==
  /\ qry[q].pc = "touch"
  /\ sessions' = {IF s.id \in qry[q].session_id THEN [s EXCEPT !.touched = qry[q].qid] ELSE s
                  : s \in sessions}
  /\ qry' = [qry EXCEPT ![q].pc = "done",
                        ![q].response = [answer |-> qry[q].prompt, sources |-> qry[q].sources,
                                         session_id |-> qry[q].session_id,
                                         found_in_documents |-> qry[q].found]]
  /\ UNCHANGED <<messages, nQueries>>
  /\ QueryFrame

\* The embedding call, the model call or a persistence call of query raises.
QueryFailPcs == {"session", "user_msg", "embed", "generate", "assistant_msg", "touch"}

QueryFail(q) ==
  /\ qry[q].pc \in QueryFailPcs
  /\ qry' = [qry EXCEPT ![q] = Raised(qry[q])]
  /\ messages' = MessagesAfterRaise(messages, qry[q].qid)
  /\ UNCHANGED <<sessions, nQueries>>
  /\ QueryFrame

\* The route has answered (200 or 500); the slot is free again.
ReturnQuery(q) ==
  /\ qry[q].pc \in {"done", "failed"}
  /\ qry' = [qry EXCEPT ![q] = IdleQuery]
  /\ UNCHANGED <<sessions, messages, nQueries>>
  /\ QueryFrame

QueryStep(q) ==
  \/ CreateSession(q)
  \/ SaveUserMessage(q)
  \/ EmbedQuestion(q)
  \/ SearchDocs(q)
  \/ SearchChunks(q)
  \/ SearchFail(q)
  \/ GenerateAnswer(q)
  \/ SaveAssistantMessage(q)
  \/ TouchSession(q)
  \/ QueryFail(q)
  \/ ReturnQuery(q)

---------------------------------------------------------------------------
(* The search called on its own, with any top_k and threshold *)

NoSearch ==
  [called |-> FALSE, user |-> None, qe |-> NULL, top_k |-> 0, threshold |-> 0,
   candidates |-> {}, results |-> <<>>]

Thresholds == {0, ThresholdDefault, 7, 11}

search_call ==
  /\ \E user \in Users, qe \in QueryVectors, top_k \in 1 .. MaxTopK, threshold \in Thresholds :
       \E res \in search_similar_chunks(user, qe, top_k, threshold) :
         srch' = [called |-> TRUE, user |-> user, qe |-> qe, top_k |-> top_k,
                  threshold |-> threshold, candidates |-> UserDocuments(user),
                  results |-> res]
  /\ UNCHANGED <<docs, chunks, nextDocId, sessions, messages, runs, nRuns, qry, nQueries, strm, resp>>

---------------------------------------------------------------------------
(* RAGService.query_stream behind POST /query/stream *)

NoStream ==
  [pc |-> "idle", user |-> None, question |-> <<>>, session_id |-> {},
   relevant_chunks |-> <<>>, prompt |-> None, upstream |-> "ok", frames |-> <<>>]

StreamFrame ==
  UNCHANGED <<docs, chunks, nextDocId, sessions, messages, runs, nRuns, qry, nQueries, srch, resp>>

\* generate_stream: f"data: {chunk}\n\n" around each item query_stream yields.
ContentFrame(k) == [event |-> "data", kind |-> "content", n |-> k]
ErrorFrame == [event |-> "data", kind |-> "error", n |-> 0]

ContentFrames(frames) == SelectSeq(frames, LAMBDA f : f.kind = "content")
ErrorFrames(frames) == SelectSeq(frames, LAMBDA f : f.kind = "error")

\* POST /query/stream: the response body is the generator over query_stream.
query_chatbot_stream ==
  /\ strm.pc \in {"idle", "ended"}
  /\ \E user \in Users, question \in Questions, sid \in SessionArgs :
       strm' = [NoStream EXCEPT !.pc = "embed", !.user = user, !.question = question,
                                !.session_id = sid]
  /\ StreamFrame

\* query_embedding = embed_text(question)
StreamEmbed ==
  /\ strm.pc = "embed"
  /\ strm' = [strm EXCEPT !.pc = "search"]
  /\ StreamFrame

\* relevant_chunks = _search_similar_chunks(query_embedding), [] when the
\* search fails; then the prompt with the context, or the one without.
StreamSearch ==
  /\ strm.pc = "search"
  /\ \E res \in search_similar_chunks(strm.user, embed_question(strm.question),
                                       TopKDefault, ThresholdDefault) \cup {<<>>} :
       strm' = [strm EXCEPT !.relevant_chunks = res,
                            !.prompt = IF HasRelevant(res) THEN "context" ELSE "fallback",
                            !.pc = "stream"]
  /\ StreamFrame

\* async for chunk in llm.astream(prompt): yield {"content": chunk.content}
StreamFragment ==
  /\ strm.pc = "stream"
  /\ Len(ContentFrames(strm.frames)) < MaxFragments
  /\ strm' = [strm EXCEPT !.frames = Append(@, ContentFrame(Len(strm.frames) + 1))]
  /\ StreamFrame

\* The streamed answer is stored as the session's ASSISTANT message and the
\* session is stamped, as query does.
StreamEnd_SavesAnswer ==
  /\ strm.pc = "stream"
  /\ strm' = [strm EXCEPT !.pc = "ended"]
  /\ messages' = Append(messages, Message(0, "ASSISTANT", <<strm.prompt>>, <<>>, 0))
  /\ sessions' = {IF s.id \in strm.session_id THEN [s EXCEPT !.touched = 0] ELSE s : s \in sessions}
  /\ UNCHANGED <<docs, chunks, nextDocId, runs, nRuns, qry, nQueries, srch, resp>>

\* The model's stream is exhausted: query_stream returns.
StreamEnd ==
  /\ strm.pc = "stream"
  /\ strm' = [strm EXCEPT !.pc = "ended"]
  /\ StreamFrame

\* The exception leaves the generator towards its consumer.
StreamCaught_Raises(rec) == [rec EXCEPT !.pc = "raised"]

\* except Exception: yield {"error": str(e)}; the generator then returns.
StreamCaught(rec) == [rec EXCEPT !.frames = Append(@, ErrorFrame), !.pc = "ended"]

\* embed_text raises, or the model's stream raises before or between items.
StreamFail ==
  /\ strm.pc \in {"embed", "stream"}
  /\ strm' = StreamCaught([strm EXCEPT !.upstream = "failed"])
  /\ StreamFrame

StreamStep ==
  \/ StreamEmbed
  \/ StreamSearch
  \/ StreamFragment
  \/ StreamEnd
  \/ StreamFail

---------------------------------------------------------------------------
(* Routes that answer from the tables: chat history, deletes, summarize *)

\* The last answer a caller got: the HTTP status and body of a route, or for
\* a direct call of a service what it returned or raised (status 0).
NoResponse ==
  [op |-> "none", user |-> None, arg |-> <<>>, status |-> 0, body |-> <<>>, llm_calls |-> 0]

Response(op, user, arg, out) ==
  [op |-> op, user |-> user, arg |-> arg, status |-> out.status, body |-> out.body,
   llm_calls |-> out.llm_calls]

RouteFrame == UNCHANGED <<nextDocId, runs, nRuns, qry, nQueries, srch, strm>>

\* What a handler does: its answer and the tables it leaves.
Outcome(status, body, ds, cs, ss, ms) ==
  [status |-> status, body |-> body, llm_calls |-> 0,
   docs |-> ds, chunks |-> cs, sessions |-> ss, messages |-> ms]
Untouched(status, body) == Outcome(status, body, docs, chunks, sessions, messages)

Applied(out) ==
  /\ docs' = out.docs
  /\ chunks' = out.chunks
  /\ sessions' = out.sessions
  /\ messages' = out.messages

\* The session ids a path may name; 0 is the id of no session.
SessionKeys == 0 .. MaxQueries

OwnedBy_Anyone(row, user) == TRUE

\* where={"id": ..., "userId": current_user.id}
OwnedBy(row, user) == row.userId = user
FindFirstSession(sid, user) == {s \in sessions : s.id = sid /\ OwnedBy(s, user)}
FindFirstDocument(id, user) == {d \in docs : d.id = id /\ OwnedBy(d, user)}

MessagesOf(sid) == SelectSeq(messages, LAMBDA m : m.sessionId = sid)

\* GET /sessions/{session_id}
GetChatHistoryOutcomes(user, sid) ==
  LET session == FindFirstSession(sid, user)
  IN {Untouched(500, <<"Failed to retrieve chat history">>)} \cup
     {IF session = {}
        THEN Untouched(404, <<"Session not found">>)
        ELSE Untouched(200, <<"history", CHOOSE x \in session : TRUE, MessagesOf(sid)>>)}

get_chat_history ==
  /\ \E user \in Users, sid \in SessionKeys :
       \E out \in GetChatHistoryOutcomes(user, sid) :
         /\ resp' = Response("get_chat_history", user, <<sid>>, out)
         /\ Applied(out)
  /\ RouteFrame

\* DELETE /sessions/{session_id}: the session and, by cascade, its messages.
DeleteChatSessionOutcomes(user, sid) ==
  LET session == FindFirstSession(sid, user)
  IN {Untouched(500, <<"Failed to delete session">>)} \cup
     {IF session = {}
        THEN Untouched(404, <<"Session not found">>)
        ELSE Outcome(200, <<"Session deleted successfully", sid>>, docs, chunks,
                     {s \in sessions : s.id # sid},
                     SelectSeq(messages, LAMBDA m : m.sessionId # sid))}

delete_chat_session ==
  /\ \E user \in Users, sid \in SessionKeys :
       \E out \in DeleteChatSessionOutcomes(user, sid) :
         /\ resp' = Response("delete_chat_session", user, <<sid>>, out)
         /\ Applied(out)
  /\ RouteFrame

\* DELETE /documents/{document_id}, with the answer the caller gets.
DeleteDocumentOutcomes(user, id) ==
  LET document == FindFirstDocument(id, user)
  IN {Untouched(500, <<"Failed to delete document">>)} \cup
     {IF document = {}
        THEN Untouched(404, <<"Document not found">>)
        ELSE Outcome(200, <<"Document deleted successfully", id>>,
                     {d \in docs : d.id # id}, DeleteManyChunks({id}), sessions, messages)}

delete_document_answered ==
  /\ \E user \in Users, id \in DocRowIds :
       \E out \in DeleteDocumentOutcomes(user, id) :
         /\ resp' = Response("delete_document", user, <<id>>, out)
         /\ Applied(out)
  /\ RouteFrame

\* SummarizeRequest.validate_summary_type
AllowedTypes == {"concise", "detailed", "bullet_points"}
SummaryTypes == AllowedTypes \cup {"verbose"}
validate_summary_type(v) == v \in AllowedTypes

\* The document id lists a summarize request may carry (min_items=1): ids that
\* were assigned, and the next one, which is not stored.
DocIdLists == (SUBSET (1 .. nextDocId)) \ {{}}

GeneratesFor_Any(summary_type) == TRUE

\* if summary_type == "concise" ... elif "detailed" ... elif "bullet_points":
\* the branches that call the model; else: raise ValueError.
GeneratesFor(summary_type) == summary_type \in {"concise", "detailed", "bullet_points"}

\* SummarizationService.summarize_documents: what it returns or raises, and
\* the calls to the model it made.
Raises(kind, msg, calls) == [status |-> 0, body |-> <<kind, msg>>, llm_calls |-> calls]

SummarizeOutcomes(user, ids, summary_type) ==
  LET documents == {d \in docs : d.id \in ids /\ OwnedBy(d, user)}
  IN {Raises("Exception", "database", 0)} \cup
     (IF documents = {}
        THEN {Raises("ValueError", "No documents found", 0)}
        ELSE IF GeneratesFor(summary_type)
          THEN {[status |-> 0, body |-> <<"summary", summary_type, RowIds(documents)>>,
                 llm_calls |-> 1],
                Raises("Exception", "model", 1)}
          ELSE {Raises("ValueError", "Invalid summary type", 0)})

\* The service called directly, past the request model.
summarize_service ==
  /\ \E user \in Users, ids \in DocIdLists, summary_type \in SummaryTypes :
       \E out \in SummarizeOutcomes(user, ids, summary_type) :
         resp' = Response("SummarizationService", user, <<ids, summary_type>>, out)
  /\ UNCHANGED <<docs, chunks, sessions, messages>>
  /\ RouteFrame

\* POST /summarize: the request model first, then the service; what the
\* service raises is answered as 500.
summarize_documents ==
  /\ \E user \in Users, ids \in DocIdLists, summary_type \in SummaryTypes :
       IF ~validate_summary_type(summary_type)
         THEN resp' = Response("summarize_documents", user, <<ids, summary_type>>,
                               [status |-> 422, body |-> <<"ValidationError", "summary_type must be one of">>,
                                llm_calls |-> 0])
         ELSE \E out \in SummarizeOutcomes(user, ids, summary_type) :
                resp' = Response("summarize_documents", user, <<ids, summary_type>>,
                                 [out EXCEPT !.status = IF out.body[1] = "summary" THEN 200 ELSE 500])
  /\ UNCHANGED <<docs, chunks, sessions, messages>>
  /\ RouteFrame

---------------------------------------------------------------------------
(* Database states that ingestion leaves behind *)

\* The first k chunk rows of a text; the last of them may lack its embedding.
StoredRows(id, content, k, lastBare) ==
  {ChunkRow(id, j - 1, split_text(content)[j],
            IF lastBare /\ j = k THEN NULL ELSE embed_chunk(split_text(content)[j]))
   : j \in 1 .. k}

DocRecord(id, user, g, content, processed) ==
  [id |-> id, userId |-> user, googleDocId |-> g, title |-> TitleOf(content),
   content |-> content, isProcessed |-> processed]

\* A stored document: processed with all of its chunks, or left unprocessed
\* by a failed attempt with the rows that attempt had written.
IngestedStates(id, g) ==
  {[doc |-> {}, rows |-> {}]} \cup
  {[doc |-> {DocRecord(id, u, g, c, TRUE)}, rows |-> StoredRows(id, c, c, FALSE)]
   : u \in Users, c \in Contents} \cup
  UNION {{[doc |-> {DocRecord(id, u, g, c, FALSE)}, rows |-> StoredRows(id, c, k, b)]
          : k \in (IF b THEN 1 ELSE 0) .. c} : u \in Users, c \in Contents, b \in BOOLEAN}

InitDb ==
  /\ \E s1 \in IngestedStates(1, "g1"), s2 \in IngestedStates(2, "g2") :
       /\ docs = s1.doc \cup s2.doc
       /\ chunks = SetToBag(s1.rows \cup s2.rows)
  /\ nextDocId = 3
  /\ sessions = {}
  /\ messages = <<>>
  /\ runs = [r \in RunIds |-> IdleRun]
  /\ nRuns = 0
  /\ qry = [q \in QryIds |-> IdleQuery]
  /\ nQueries = 0
  /\ srch = NoSearch
  /\ strm = NoStream
  /\ resp = NoResponse

\* A database in which every stored document is processed.
ProcessedStates(id, g) ==
  {st \in IngestedStates(id, g) : \A d \in st.doc : d.isProcessed}

\* A session a query created and answered without sources, with its USER and
\* ASSISTANT message and its update stamp.
ChatStates(id) ==
  {[session |-> {}, msgs |-> <<>>]} \cup
  {[session |-> {[id |-> id, userId |-> u, title |-> SessionTitle(Text(2)), touched |-> id]},
    msgs |-> <<Message(id, "USER", Text(2), <<>>, id),
               Message(id, "ASSISTANT", <<"fallback">>, <<>>, id)>>] : u \in Users}

RECURSIVE MessagesUpTo(_, _)
MessagesUpTo(f, n) == IF n = 0 THEN <<>> ELSE MessagesUpTo(f, n - 1) \o f[n].msgs

ProcessedDb ==
  /\ \E s1 \in ProcessedStates(1, "g1"), s2 \in ProcessedStates(2, "g2") :
       /\ docs = s1.doc \cup s2.doc
       /\ chunks = SetToBag(s1.rows \cup s2.rows)
  /\ nextDocId = 3

InitRoutes ==
  /\ ProcessedDb
  /\ \E f \in [1 .. MaxQueries -> UNION {ChatStates(id) : id \in 1 .. MaxQueries}] :
       /\ \A id \in 1 .. MaxQueries : f[id] \in ChatStates(id)
       /\ sessions = UNION {f[id].session : id \in 1 .. MaxQueries}
       /\ messages = MessagesUpTo(f, MaxQueries)
  /\ runs = [r \in RunIds |-> IdleRun]
  /\ nRuns = 0
  /\ qry = [q \in QryIds |-> IdleQuery]
  /\ nQueries = MaxQueries
  /\ srch = NoSearch
  /\ strm = NoStream
  /\ resp = NoResponse

\* Processed documents and no chat session yet.
InitSummarize ==
  /\ ProcessedDb
  /\ sessions = {}
  /\ messages = <<>>
  /\ runs = [r \in RunIds |-> IdleRun]
  /\ nRuns = 0
  /\ qry = [q \in QryIds |-> IdleQuery]
  /\ nQueries = 0
  /\ srch = NoSearch
  /\ strm = NoStream
  /\ resp = NoResponse

\* One source document stored and processed, or none, and no chat session.
InitConcurrent ==
  /\ \E s1 \in ProcessedStates(1, "g1") :
       /\ docs = s1.doc
       /\ chunks = SetToBag(s1.rows)
  /\ nextDocId = 2
  /\ sessions = {}
  /\ messages = <<>>
  /\ runs = [r \in RunIds |-> IdleRun]
  /\ nRuns = 0
  /\ qry = [q \in QryIds |-> IdleQuery]
  /\ nQueries = 0
  /\ srch = NoSearch
  /\ strm = NoStream
  /\ resp = NoResponse

\* One source document stored and processed, or none; earlier requests have
\* left room for one more batch run and one more query.
InitRace ==
  /\ \E s1 \in ProcessedStates(1, "g1") :
       /\ docs = s1.doc
       /\ chunks = SetToBag(s1.rows)
  /\ nextDocId = 2
  /\ sessions = {}
  /\ messages = <<>>
  /\ runs = [r \in RunIds |-> IdleRun]
  /\ nRuns = MaxRuns - 1
  /\ qry = [q \in QryIds |-> IdleQuery]
  /\ nQueries = MaxQueries - 1
  /\ srch = NoSearch
  /\ strm = NoStream
  /\ resp = NoResponse

---------------------------------------------------------------------------
(* Specifications *)

\* The empty database, nothing running.
Init ==
  /\ docs = {}
  /\ chunks = EmptyBag
  /\ nextDocId = 1
  /\ sessions = {}
  /\ messages = <<>>
  /\ runs = [r \in RunIds |-> IdleRun]
  /\ nRuns = 0
  /\ qry = [q \in QryIds |-> IdleQuery]
  /\ nQueries = 0
  /\ srch = NoSearch
  /\ strm = NoStream
  /\ resp = NoResponse

\* Ingestion: batch runs one after the other, documents deleted at any time.
Next ==
  \/ \E r \in SeqRuns : select_documents(r)
  \/ \E r \in SeqRuns : refresh_documents(r)
  \/ \E r \in SeqRuns : IngestStep(r)
  \/ \E r \in SeqRuns : ReturnRun(r)
  \/ delete_document

Spec == Init /\ [][Next]_vars

\* Queries one after the other over an ingested database.
NextQuery ==
  \/ \E q \in SeqQrys : query_chatbot(q)
  \/ \E q \in SeqQrys : QueryStep(q)

SpecQuery == InitDb /\ [][NextQuery]_vars

\* The search alone over an ingested database.
NextSearch == search_call

SpecSearch == InitDb /\ [][NextSearch]_vars

\* Streaming queries one after the other over an ingested database.
NextStream ==
  \/ query_chatbot_stream
  \/ StreamStep

SpecStream == InitDb /\ [][NextStream]_vars

\* Streaming queries over a database with chat sessions of earlier queries.
SpecStreamChat == InitRoutes /\ [][NextStream]_vars

\* Requests to the routes that answer from the tables.
NextRoutes ==
  \/ get_chat_history
  \/ delete_chat_session
  \/ delete_document_answered

SpecRoutes == InitRoutes /\ [][NextRoutes]_vars

\* Summarize requests, through the route and to the service directly.
NextSummarize ==
  \/ summarize_service
  \/ summarize_documents

SpecSummarize == InitSummarize /\ [][NextSummarize]_vars

\* Batch runs of several requests at once: each background task runs on the
\* event loop and gives way to the others at every await.
NextConcurrent ==
  \/ \E r \in RunIds : select_one_document(r)
  \/ \E r \in RunIds : refresh_documents(r)
  \/ \E r \in RunIds : IngestStep(r)
  \/ \E r \in RunIds : ReturnRun(r)
  \/ delete_document

SpecConcurrent == InitConcurrent /\ [][NextConcurrent]_vars

\* A query while the user's documents are refreshed or deleted: the refresh
\* task and the query call give way to each other at every await.
NextRace ==
  \/ \E r \in SeqRuns : refresh_documents(r)
  \/ \E r \in SeqRuns : IngestStep(r)
  \/ \E r \in SeqRuns : ReturnRun(r)
  \/ delete_document
  \/ \E q \in SeqQrys : query_chatbot(q)
  \/ \E q \in SeqQrys : QueryStep(q)

SpecRace == InitRace /\ [][NextRace]_vars

\* Query calls of several requests at once, each giving way to the others at
\* every await.
NextChat ==
  \/ \E q \in QryIds : query_chatbot(q)
  \/ \E q \in QryIds : QueryStep(q)

SpecChat == InitConcurrent /\ [][NextChat]_vars

---------------------------------------------------------------------------
(* Properties of ingestion, checked under Spec *)

Range(seq) == {seq[k] : k \in 1 .. Len(seq)}
RunActive(r) == runs[r].pc \notin {"idle", "done", "raised"}
RunStepped(r) == runs'[r] # runs[r]
CallEnded(r) == RunActive(r) /\ Len(runs'[r].outcomes) = Len(runs[r].outcomes) + 1
CallEndedWith(r, outcome) ==
  CallEnded(r) /\ runs'[r].outcomes = Append(runs[r].outcomes, outcome)

\* The document stored under the current id, and its chunk rows.
StoredUnder(g) == <<DocByGoogleId(g), ChunksOfAll(RowIds(DocByGoogleId(g)))>>

\* C2: an ingest call without refresh for an id that has a stored document
\* when the call looks it up ends at the lookup (as a skip, or as a failure
\* of the lookup itself), and the document's record and chunk rows stay as
\* they are.
C2_NoRefreshLeavesStored ==
  [][\A r \in RunIds :
       (/\ RunActive(r) /\ RunStepped(r)
        /\ ~runs[r].is_refresh
        /\ \/ runs[r].pc = "find" /\ FindUnique(CurId(r)) # {}
           \/ runs[r].existing_doc # {})
       => /\ \A g \in GoogleDocIds : g = CurId(r) => StoredUnder(g)' = StoredUnder(g)
          /\ CallEndedWith(r, "exists") \/ CallEndedWith(r, "failed")]_vars

C2_Witness ==
  \E r \in RunIds, d \in docs :
    /\ runs[r].pc = "done" /\ ~runs[r].is_refresh
    /\ runs[r].ids = <<d.googleDocId, d.googleDocId>>
    /\ runs[r].outcomes = <<"exists", "exists">>
    /\ d.isProcessed /\ ChunkCount(d.id) = MaxChunks

\* C3: the step that completes a refresh of an existing document leaves the
\* document, if it is still stored, with the fetched title and content, the
\* processed flag set, and as chunk rows exactly the chunks of the fetched
\* content under ordinals 0..n-1, each once, each embedded.
C3_RefreshReplacesChunks ==
  [][\A r \in RunIds :
       CallEndedWith(r, "refreshed") =>
         \A d \in docs' :
           d.id \in runs[r].existing_doc =>
             /\ d.title = runs[r].doc_data.title
             /\ d.content = runs[r].doc_data.content
             /\ d.isProcessed
             /\ ChunksOf(d.id)' =
                  SetToBag(StoredRows(d.id, d.content, Len(split_text(d.content)), FALSE))]_vars

C3_Witness ==
  \E r \in RunIds, d \in docs :
    /\ runs[r].pc = "done" /\ runs[r].is_refresh
    /\ runs[r].ids = <<d.googleDocId>>
    /\ runs[r].outcomes = <<"refreshed">>
    /\ d.isProcessed /\ d.content = 1 /\ ChunkCount(d.id) = 1

\* C4: an attempt that fails at the embedding call or while storing chunks
\* leaves the document unprocessed; an attempt about to write chunk idx finds
\* under the document only the idx rows it wrote itself; and no document ever
\* holds two rows with the same ordinal.
FailsPartWay(r) ==
  /\ runs[r].pc \in {"embed", "store_chunk", "store_emb"}
  /\ CallEndedWith(r, "failed")

WriterSeesOwnRows(r) ==
  (runs[r].pc = "store_chunk" /\ RowIds(docs) \cap runs[r].document # {}) =>
    ChunksOf(DocumentId(r)) =
      SetToBag(StoredRows(DocumentId(r), runs[r].doc_data.content, runs[r].idx, FALSE))

NoOrdinalTwice ==
  \A d \in docs : \A k \in 0 .. MaxChunks : OrdinalCount(d.id, k) <= 1

C4_FailedAttemptCleanedBeforeRetry ==
  /\ [](NoOrdinalTwice /\ \A r \in RunIds : WriterSeesOwnRows(r))
  /\ [][\A r \in RunIds :
          FailsPartWay(r) =>
            \A d \in docs' : d.id \in runs[r].document => ~d.isProcessed]_vars

\* A refresh is about to clean a document that a failed attempt left
\* unprocessed with a part of its rows.
C4_Witness ==
  \E r \in RunIds, d \in docs :
    /\ runs[r].pc = "delete_chunks" /\ runs[r].existing_doc = {d.id}
    /\ ~d.isProcessed
    /\ ChunkCount(d.id) = 1 /\ Len(split_text(d.content)) = MaxChunks
    /\ runs[r].doc_data.content = MaxChunks

\* C5: an ingest call that ends without a failure for an id whose document is
\* stored leaves that document processed, with the refresh flag or without.
C5_SuccessfulIngestProcesses ==
  [][\A r \in RunIds :
       (CallEnded(r) /\ ~CallEndedWith(r, "failed")) =>
         \A d \in docs' : d.googleDocId = CurId(r) => d.isProcessed]_vars

\* C6: a failure while processing one id does not stop the batch: the ids are
\* attempted once each in list order, a call for one id writes to no other
\* id's document or chunks, and the next call starts with nothing kept from
\* the one before.
AttemptedInOrder(r) ==
  /\ runs[r].pc # "raised"
  /\ RunActive(r) =>
       /\ runs[r].attempted = SubSeq(runs[r].ids, 1, runs[r].i)
       /\ Len(runs[r].outcomes) = runs[r].i - 1
  /\ runs[r].pc = "done" =>
       /\ runs[r].attempted = runs[r].ids
       /\ Len(runs[r].outcomes) = Len(runs[r].ids)

C6_BatchContinuesAfterFailure ==
  /\ [](\A r \in RunIds : AttemptedInOrder(r))
  /\ [][\A r \in RunIds :
          (RunActive(r) /\ RunStepped(r)) =>
            /\ \A g \in GoogleDocIds \ {CurId(r)} : StoredUnder(g)' = StoredUnder(g)
            /\ CallEnded(r) =>
                 /\ runs'[r].existing_doc = {} /\ runs'[r].document = {}
                 /\ runs'[r].idx = 0
                 /\ runs'[r].pc \in {"fetch", "done"}]_vars

C6_Witness ==
  \E r \in RunIds :
    /\ runs[r].pc = "done"
    /\ runs[r].ids = <<"g1", "g2">>
    /\ runs[r].outcomes = <<"failed", "created">>
    /\ \E d \in docs : d.googleDocId = "g2" /\ d.isProcessed /\ ChunkCount(d.id) = MaxChunks

FailedIds(r) ==
  LET failed == {k \in 1 .. Len(runs[r].outcomes) : runs[r].outcomes[k] = "failed"}
      pick[k \in 0 .. Len(runs[r].outcomes)] ==
        IF k = 0 THEN <<>>
        ELSE IF k \in failed THEN Append(pick[k - 1], runs[r].attempted[k]) ELSE pick[k - 1]
  IN pick[Len(runs[r].outcomes)]

SplitsToNothing(r) ==
  /\ runs[r].pc = "split" /\ CurChunks(r) = <<>>
  /\ runs[r].document # {}
  /\ runs'[r] # runs[r]

C16_ZeroChunksIsProcessed ==
  [][\A r \in RunIds :
       (SplitsToNothing(r) /\ ~PersistenceFail(r)) =>
         /\ CallEndedWith(r, Completed(runs[r]))
         /\ runs'[r].pc \in {"fetch", "done"}
         /\ chunks' = chunks
         /\ \A d \in docs' :
              d.id \in runs[r].document => d.isProcessed /\ ChunkCount(d.id)' = 0]_vars

\* A text without chunks was ingested as a new document: processed, no rows.
C16_Witness ==
  \E r \in RunIds, d \in docs :
    /\ runs[r].pc = "done" /\ runs[r].outcomes = <<"created">>
    /\ runs[r].ids = <<d.googleDocId>>
    /\ d.content = 0 /\ split_text(d.content) = <<>>
    /\ d.isProcessed /\ ChunkCount(d.id) = 0

\* C20: with batch runs one after the other and documents deleted in between,
\* whether calls complete or fail part-way, the chunk rows of every document
\* carry the ordinals 0..n-1, each exactly once, n being the number of its rows.
OrdinalsContiguous(id) ==
  \A k \in 0 .. ChunkCount(id) - 1 : OrdinalCount(id, k) = 1

C20_OrdinalsContiguous ==
  \A d \in docs : OrdinalsContiguous(d.id)

\* A refresh failed after writing the first of the chunks of a new text.
C20_Witness ==
  \E r \in RunIds, d \in docs :
    /\ runs[r].pc = "done" /\ runs[r].is_refresh
    /\ runs[r].ids = <<d.googleDocId>> /\ runs[r].outcomes = <<"failed">>
    /\ ~d.isProcessed /\ d.content = MaxChunks
    /\ ChunkCount(d.id) = MaxChunks - 1 /\ ChunkCount(d.id) > 0

\* C21: a call is at its fetch with nothing written by it, and a call that
\* ends as a failure at its fetch (metadata, unsupported type or content)
\* leaves every table as it was: no document row appears for the id, and a
\* stored document under refresh keeps its content, flag and chunk rows; only
\* that call ends, the batch goes on.
C21_FetchFailureWritesNothing ==
  /\ [](\A r \in RunIds :
          runs[r].pc = "fetch" => runs[r].existing_doc = {} /\ runs[r].document = {})
  /\ [][\A r \in RunIds :
          (runs[r].pc = "fetch" /\ CallEndedWith(r, "failed")) =>
            /\ docs' = docs /\ chunks' = chunks /\ nextDocId' = nextDocId
            /\ runs'[r].pc \in {"fetch", "done"}]_vars

\* A refresh of a processed document ended as a failure before its first
\* write: the document is processed and holds all of its chunks.
C21_Witness ==
  \E r \in RunIds, d \in docs :
    /\ runs[r].pc = "done" /\ runs[r].is_refresh
    /\ runs[r].ids = <<d.googleDocId>> /\ runs[r].outcomes = <<"failed">>
    /\ d.isProcessed /\ d.content = MaxChunks /\ ChunkCount(d.id) = MaxChunks
    /\ \A row \in BagToSet(ChunksOf(d.id)) : row.embedding # NULL

\* C24: in every state, a document whose processed flag is set holds as chunk
\* rows exactly the chunks of its stored content, each with its embedding.
C24_ProcessedHoldsCompleteChunks ==
  \A d \in docs :
    d.isProcessed =>
      ChunksOf(d.id) = SetToBag(StoredRows(d.id, d.content, Len(split_text(d.content)), FALSE))

---------------------------------------------------------------------------
(* Properties of interleaved batch runs, checked under SpecConcurrent *)

OneVersion(id) == \A x, y \in BagToSet(ChunksOf(id)) : x.content[1] = y.content[1]

\* Every run slot has ended a refresh of the one document g without a failure.
BothRefreshed(g) ==
  \A r \in RunIds :
    /\ runs[r].pc = "done" /\ runs[r].is_refresh
    /\ runs[r].ids = <<g>> /\ runs[r].outcomes = <<"refreshed">>

\* C23: once two interleaved refresh runs of one document have both completed,
\* the chunk rows of the document carry pairwise distinct ordinals 0..n-1 and
\* are the chunks of one version of the content only.
C23_InterleavedRefreshesLeaveOneVersion ==
  \A d \in docs :
    BothRefreshed(d.googleDocId) =>
      /\ \A k \in 0 .. MaxChunks : OrdinalCount(d.id, k) <= 1
      /\ OrdinalsContiguous(d.id)
      /\ OneVersion(d.id)

\* C26: a step of a run started by user U leaves every document of another
\* owner as it is, record and chunk rows, and every document row it adds is
\* owned by U, whatever other requests are interleaved with it.
C26_RunsTouchOnlyOwnDocuments ==
  [][\A r \in RunIds :
       (RunActive(r) /\ RunStepped(r)) =>
         /\ \A d \in docs :
              d.userId # runs[r].user => d \in docs' /\ ChunksOf(d.id)' = ChunksOf(d.id)
         /\ \A d \in docs' \ docs : d.userId = runs[r].user]_vars

---------------------------------------------------------------------------
(* Properties of a query interleaved with a refresh, checked under SpecRace *)

\* The step in which the query reads the chunk rows and gets its results.
ReadsChunkRows(q) == qry[q].pc = "search_chunks" /\ qry'[q].pc = "generate"

\* C25 as stated: every chunk the query gets from its read of the chunk rows
\* belongs to a document whose processed flag is set at that moment.
C25_ReturnedChunksOfProcessedNow ==
  [][\A q \in QryIds :
       ReadsChunkRows(q) =>
         \A k \in 1 .. Len(qry'[q].results) :
           \E d \in docs : d.id = qry'[q].results[k].documentId /\ d.isProcessed]_vars

\* C25 as amended: every chunk the query gets from its read of the chunk rows
\* is a stored row with its embedding at that moment, of a document that was
\* owned by the querying user and processed when the query read its candidate
\* documents; the flag may have been reset since.
C25_ReturnedChunksOfProcessedAtCandidateRead ==
  [][\A q \in QryIds :
       ReadsChunkRows(q) =>
         \A k \in 1 .. Len(qry'[q].results) :
           LET res == qry'[q].results[k]
           IN /\ \E d \in qry[q].user_documents :
                   d.id = res.documentId /\ d.userId = qry[q].user /\ d.isProcessed
              /\ \E row \in BagToSet(chunks) :
                   /\ row.documentId = res.documentId /\ row.chunkIndex = res.chunkIndex
                   /\ row.content = res.content /\ row.embedding # NULL]_vars

\* The query holds a chunk of a document that a refresh has reset to
\* unprocessed and is filling again.
C25_Witness ==
  \E q \in QryIds, r \in RunIds, d \in docs :
    /\ qry[q].pc = "generate" /\ qry[q].results # <<>>
    /\ d.id = qry[q].results[1].documentId
    /\ d \notin qry[q].user_documents /\ ~d.isProcessed
    /\ runs[r].is_refresh /\ runs[r].document = {d.id}
    /\ runs[r].pc \in {"store_chunk", "store_emb", "mark"}

\* C28: a failure of the persistence layer inside the search hands query an
\* empty list and writes nothing; no step of the search makes the call fail;
\* and a call that goes on with an empty list takes the fallback prompt, with
\* found_in_documents false and no sources, stores its ASSISTANT message so,
\* and returns so.
InSearch(q) == qry[q].pc \in {"search_docs", "search_chunks"}

FallbackAnswer(q) ==
  Message(SessionId(q), "ASSISTANT", <<"fallback">>, <<>>, qry[q].qid)

C28_SearchFailureFallsBack ==
  /\ [][\A q \in QryIds :
          (InSearch(q) /\ qry'[q] # qry[q]) =>
            /\ qry'[q].pc \in {"search_chunks", "generate"}
            /\ SearchFail(q) =>
                 /\ qry'[q].results = <<>> /\ qry'[q].pc = "generate"
                 /\ messages' = messages /\ sessions' = sessions]_vars
  /\ [](\A q \in QryIds :
          (qry[q].results = <<>> /\ qry[q].pc \in {"assistant_msg", "touch", "done"}) =>
            /\ qry[q].prompt = "fallback" /\ ~qry[q].found /\ qry[q].sources = <<>>
            /\ qry[q].pc \in {"touch", "done"} =>
                 \E k \in 1 .. Len(messages) : messages[k] = FallbackAnswer(q)
            /\ qry[q].pc = "done" =>
                 /\ qry[q].response.found_in_documents = FALSE
                 /\ qry[q].response.sources = <<>>
                 /\ qry[q].response.answer = "fallback")

\* A call has returned the fallback answer, stored, although on this database
\* every search for its question returns a chunk: its search had failed.
C28_Witness ==
  \E q \in QryIds :
    /\ qry[q].pc = "done" /\ qry[q].results = <<>>
    /\ qry[q].response.found_in_documents = FALSE /\ qry[q].response.sources = <<>>
    /\ \E k \in 1 .. Len(messages) : messages[k] = FallbackAnswer(q)
    /\ <<>> \notin search_similar_chunks(qry[q].user, embed_question(qry[q].question),
                                          TopKDefault, ThresholdDefault)

---------------------------------------------------------------------------
(* Properties of the streaming query, checked under SpecStreamChat *)

RoleCount(sid, role) ==
  Len(SelectSeq(messages, LAMBDA m : m.sessionId = sid /\ m.role = role))

\* C29: no step of a streaming query, from the request to the end of the
\* stream or its error fragment, with a session id or without, changes the
\* sessions (their update stamps included), the messages, or any other table.
C29_StreamWritesNothing ==
  [][strm' # strm =>
       /\ sessions' = sessions
       /\ messages' = messages
       /\ docs' = docs /\ chunks' = chunks]_vars

\* A stream for the caller's own stored session has ended after its content
\* fragments: the session has its two messages and its stamp as before.
C29_Witness ==
  \E s \in sessions :
    /\ strm.pc = "ended" /\ strm.session_id = {s.id} /\ strm.user = s.userId
    /\ ErrorFrames(strm.frames) = <<>> /\ Len(ContentFrames(strm.frames)) = MaxFragments
    /\ RoleCount(s.id, "USER") = 1 /\ RoleCount(s.id, "ASSISTANT") = 1
    /\ s.touched = s.id

---------------------------------------------------------------------------
(* Properties of interleaved queries, checked under SpecChat *)

\* C27: every ASSISTANT message stands after a USER message that the same
\* query call wrote into the same session, and no session holds more ASSISTANT
\* than USER messages, whichever steps fail and however the calls interleave.
C27_AssistantFollowsUser ==
  /\ \A k \in 1 .. Len(messages) :
       messages[k].role = "ASSISTANT" =>
         \E j \in 1 .. (k - 1) :
           /\ messages[j].role = "USER"
           /\ messages[j].qid = messages[k].qid
           /\ messages[j].sessionId = messages[k].sessionId
  /\ \A sid \in SessionKeys : RoleCount(sid, "ASSISTANT") <= RoleCount(sid, "USER")

\* Two calls wrote their questions into one session before either answer was
\* stored; one of them failed, the other stored its answer.
C27_Witness ==
  \E s \in sessions :
    /\ Len(messages) = 3
    /\ \A k \in 1 .. 3 : messages[k].sessionId = s.id
    /\ messages[1].role = "USER" /\ messages[2].role = "USER"
    /\ messages[1].qid # messages[2].qid
    /\ messages[3].role = "ASSISTANT"
    /\ \E q \in QryIds : qry[q].pc = "failed" /\ qry[q].session_id = {s.id}
    /\ RoleCount(s.id, "ASSISTANT") < RoleCount(s.id, "USER")

---------------------------------------------------------------------------
(* Properties of the search and of query, checked under SpecSearch and SpecQuery *)

\* C1: every chunk a query's search returns, and every source built from it,
\* belongs to a document the candidate read returned, and every document of
\* that read was owned by the querying user and processed.
C1_OnlyOwnProcessedDocuments ==
  \A q \in QryIds :
    /\ \A d \in qry[q].user_documents : d.userId = qry[q].user /\ d.isProcessed
    /\ \A k \in 1 .. Len(qry[q].results) :
         /\ qry[q].results[k].documentId \in RowIds(qry[q].user_documents)
         /\ \E d \in docs : d.id = qry[q].results[k].documentId /\ d.userId = qry[q].user
    /\ \A k \in 1 .. Len(qry[q].sources) :
         \E d \in docs : d.id = qry[q].sources[k].documentId /\ d.userId = qry[q].user

\* The query returned chunks although the nearest embedded chunk is another
\* user's.
C1_Witness ==
  \E q \in QryIds :
    /\ qry[q].pc = "done" /\ qry[q].results # <<>>
    /\ \E row \in BagToSet(chunks), d \in docs :
         /\ d.id = row.documentId /\ d.userId # qry[q].user /\ d.isProcessed
         /\ row.embedding # NULL
         /\ \A k \in 1 .. Len(qry[q].results) :
              Similarity(embed_question(qry[q].question), row.embedding)
                > qry[q].results[k].similarity

\* C8: the search returns at most top_k results, each with similarity at
\* least similarity_threshold.
C8_AtMostTopKAboveThreshold ==
  srch.called =>
    /\ Len(srch.results) <= srch.top_k
    /\ \A k \in 1 .. Len(srch.results) : srch.results[k].similarity >= srch.threshold

\* More chunks clear the threshold than top_k, and some chunk does not.
C8_Witness ==
  /\ srch.called
  /\ Len(srch.results) = srch.top_k
  /\ LET rows == Eligible(RowIds(srch.candidates))
     IN /\ Cardinality({p \in rows : Similarity(srch.qe, p[1].embedding) >= srch.threshold})
             > srch.top_k
        /\ \E p \in rows : Similarity(srch.qe, p[1].embedding) < srch.threshold

\* C19: the search returns, most similar first, as many as top_k of the
\* eligible chunks (chunks of the candidate documents with an embedding) whose
\* similarity is at least the threshold: each result is such a chunk, none
\* twice; no such chunk left out is more similar than one returned; and fewer
\* than top_k are returned only when fewer clear the threshold.
AboveThreshold ==
  {p \in Eligible(RowIds(srch.candidates)) :
     Similarity(srch.qe, p[1].embedding) >= srch.threshold}

Returned == {ResultRow(p, srch.qe) : p \in AboveThreshold} \cap Range(srch.results)

C19_ExactTopK ==
  srch.called =>
    /\ \A k \in 1 .. Len(srch.results) - 1 :
         srch.results[k].similarity >= srch.results[k + 1].similarity
    /\ Range(srch.results) \subseteq {ResultRow(p, srch.qe) : p \in AboveThreshold}
    /\ Cardinality(Returned) = Len(srch.results)
    /\ Len(srch.results) = Min(srch.top_k, Cardinality(AboveThreshold))
    /\ \A p \in AboveThreshold :
         ResultRow(p, srch.qe) \notin Range(srch.results) =>
           \A k \in 1 .. Len(srch.results) :
             srch.results[k].similarity >= Similarity(srch.qe, p[1].embedding)

\* More chunks are eligible than the 2 * top_k rows fetched, more than top_k
\* of them clear the threshold and some do not.
C19_Witness ==
  /\ srch.called /\ srch.top_k < MaxTopK
  /\ Cardinality(Eligible(RowIds(srch.candidates))) > FetchLimit(srch.top_k)
  /\ Cardinality(AboveThreshold) > srch.top_k
  /\ AboveThreshold # Eligible(RowIds(srch.candidates))
  /\ Len(srch.results) = srch.top_k

\* C9: once the answer is generated, found_in_documents is true exactly when
\* the search returned a chunk; then the grounded prompt was used and there is
\* a source per chunk, otherwise the fallback prompt was used and there is no
\* source; an empty search result does not stop the query.
C9_FoundIffChunksReturned ==
  \A q \in QryIds :
    /\ (qry[q].pc = "generate" /\ qry[q].results = <<>>) => ENABLED GenerateAnswer(q)
    /\ qry[q].pc \in {"assistant_msg", "touch", "done"} =>
         /\ qry[q].found <=> qry[q].results # <<>>
         /\ qry[q].found => qry[q].prompt = "context" /\ qry[q].sources # <<>>
         /\ ~qry[q].found => qry[q].prompt = "fallback" /\ qry[q].sources = <<>>
         /\ Len(qry[q].sources) = Len(qry[q].results)
    /\ qry[q].pc = "done" =>
         /\ qry[q].response.found_in_documents = qry[q].found
         /\ qry[q].response.sources = qry[q].sources
         /\ qry[q].response.answer = qry[q].prompt

\* The user has processed documents with embedded chunks, none clears the
\* threshold, and the query ended on the fallback path.
C9_Witness ==
  \E q \in QryIds :
    /\ qry[q].pc = "done"
    /\ ~qry[q].response.found_in_documents /\ qry[q].response.sources = <<>>
    /\ Eligible(RowIds(qry[q].user_documents)) # {}

\* C10: a query reaches the embedding step only by the step that appends its
\* USER message; from then on that message is in the session, and a step that
\* fails the call removes no message.
QueryUserMessage(q) ==
  Message(SessionId(q), "USER", qry[q].question, <<>>, qry[q].qid)

AfterUserMessage == {"embed", "search_docs", "search_chunks", "generate", "assistant_msg", "touch"}

C10_UserMessageSurvivesFailure ==
  /\ [](\A q \in QryIds :
          qry[q].pc \in AfterUserMessage \cup {"done"} => QueryUserMessage(q) \in Range(messages))
  /\ [][\A q \in QryIds :
          /\ (qry[q].pc # "embed" /\ qry'[q].pc = "embed") =>
               /\ qry[q].pc = "user_msg"
               /\ messages' = Append(messages, QueryUserMessage(q))
          /\ (qry[q].pc \in AfterUserMessage /\ qry'[q].pc = "failed") =>
               /\ messages' = messages
               /\ QueryUserMessage(q) \in Range(messages')]_vars

\* The call failed after its USER message was written, before any ASSISTANT
\* message: the USER message is still there.
C10_Witness ==
  \E q \in QryIds :
    /\ qry[q].pc = "failed"
    /\ \E m \in Range(messages) : m.qid = qry[q].qid /\ m.role = "USER"
    /\ \A m \in Range(messages) : m.qid = qry[q].qid => m.role = "USER"

\* C11: a non-streaming query whose embedding call or model call fails ends as
\* a failure without a result: nothing is returned to the caller, no ASSISTANT
\* message of that call is stored, and no session carries its update stamp.
BeforeAnswer == {"embed", "search_docs", "search_chunks", "generate"}

NoAnswerStored(q) ==
  /\ \A m \in Range(messages) : m.qid = qry[q].qid => m.role # "ASSISTANT"
  /\ \A s \in sessions : s.touched # qry[q].qid

C11_FailureLeavesNoAnswer ==
  /\ [](\A q \in QryIds :
          /\ qry[q].pc \in BeforeAnswer => NoAnswerStored(q)
          /\ qry[q].pc = "failed" => qry[q].response = None)
  /\ [][\A q \in QryIds :
          (qry[q].pc \in {"embed", "generate"} /\ qry'[q].pc = "failed") =>
            /\ qry'[q].response = None
            /\ messages' = messages /\ sessions' = sessions
            /\ NoAnswerStored(q)']_vars

\* The search had returned chunks and the model call failed: the call ended
\* with the USER message only and an untouched session.
C11_Witness ==
  \E q \in QryIds :
    /\ qry[q].pc = "failed" /\ qry[q].results # <<>> /\ qry[q].prompt = None
    /\ qry[q].response = None
    /\ NoAnswerStored(q)
    /\ \E s \in sessions : s.id \in qry[q].session_id

\* C12: in a streaming query, when the embedding call or the model's stream
\* fails, before the first fragment or after some, the stream carries exactly
\* one error fragment, it is the last item, and the stream has ended without
\* an exception reaching its consumer; a stream without a failure carries no
\* error fragment.
C12_OneTerminalErrorFragment ==
  /\ strm.pc # "raised"
  /\ strm.upstream = "failed" =>
       /\ strm.pc = "ended"
       /\ Len(ErrorFrames(strm.frames)) = 1
       /\ strm.frames[Len(strm.frames)].kind = "error"
  /\ strm.upstream = "ok" => ErrorFrames(strm.frames) = <<>>

\* The model's stream failed after a fragment had been emitted.
C12_Witness ==
  /\ strm.upstream = "failed" /\ strm.pc = "ended"
  /\ Len(strm.frames) = MaxFragments + 1
  /\ strm.frames[1].kind = "content"
  /\ strm.relevant_chunks # <<>>

\* C14: a query that names a session stored under another user fails at its
\* first step as if the session were not stored, and no step of it adds a
\* message to that session or sets its update stamp.
NamesForeignSession(q) ==
  /\ qry[q].given
  /\ \E s \in sessions : s.id \in qry[q].session_id /\ s.userId # qry[q].user

C14_ForeignSessionIsNotFound ==
  [][\A q \in QryIds :
       (NamesForeignSession(q) /\ qry'[q] # qry[q]) =>
         /\ messages' = messages
         /\ sessions' = sessions
         /\ qry[q].pc = "user_msg" => qry'[q].pc = "failed"]_vars

\* C17: every source of a query result shows of its chunk a chunkText no
\* longer than the preview bound, however long the chunk's content is.
C17_ChunkTextWithinPreviewBound ==
  \A q \in QryIds :
    \A k \in 1 .. Len(qry[q].sources) : qry[q].sources[k].chunkText.len <= PreviewLimit

\* C22: a query without a session_id creates, in the step before its USER
\* message is written, exactly one session, owned by the querying user, with
\* the question as title when it has at most 50 characters and else its first
\* 50 characters followed by "..."; a query with a session_id creates none.
TitledFrom(title, question) ==
  IF Len(question) <= TitleLimit
    THEN title = question
    ELSE /\ Len(title) = TitleLimit + 3
         /\ \A k \in 1 .. TitleLimit : title[k] = question[k]
         /\ \A k \in 1 .. 3 : title[TitleLimit + k] = "."

SessionKeysOf(ss) == {x.id : x \in ss}

C22_SessionCreatedAndTitled ==
  /\ [](\A q \in QryIds :
          (qry[q].pc = "user_msg" /\ ~qry[q].given) =>
            /\ \E x \in sessions : x.id \in qry[q].session_id /\ x.userId = qry[q].user
            /\ \A m \in Range(messages) : m.qid # qry[q].qid)
  /\ [][\A q \in QryIds :
          /\ (qry[q].pc = "session" /\ qry'[q].pc = "user_msg") =>
               /\ ~qry[q].given
               /\ messages' = messages
               /\ \E x \in sessions' \ sessions :
                    /\ sessions' = sessions \cup {x}
                    /\ x.id \notin SessionKeysOf(sessions)
                    /\ x.userId = qry[q].user
                    /\ TitledFrom(x.title, qry[q].question)
                    /\ qry'[q].session_id = {x.id}
          /\ (qry'[q] # qry[q] /\ qry[q].pc # "session") =>
               SessionKeysOf(sessions') = SessionKeysOf(sessions)]_vars

\* A question of more than 50 characters opened a session and was answered.
C22_Witness ==
  \E q \in QryIds, x \in sessions :
    /\ qry[q].pc = "done" /\ ~qry[q].given /\ x.id \in qry[q].session_id
    /\ Len(qry[q].question) > TitleLimit
    /\ Len(x.title) = TitleLimit + Len(Ellipsis)
    /\ Cardinality(sessions) = 1

---------------------------------------------------------------------------
(* Properties of the routes, checked under SpecRoutes *)

\* C13: for get chat history, delete chat session and delete document, a
\* request naming an id stored under another user has the outcomes (answer
\* and tables left) of a request naming an id that is not stored; when such a
\* request is made its answer is not a success and the sessions, messages,
\* documents and chunks stay as they are.
NamesForeign(op, user, arg) ==
  \/ /\ op \in {"get_chat_history", "delete_chat_session"}
     /\ \E s \in sessions : s.id = arg[1] /\ s.userId # user
  \/ /\ op = "delete_document"
     /\ \E d \in docs : d.id = arg[1] /\ d.userId # user

C13_ForeignIdAsMissing ==
  /\ [](\A user \in Users :
          /\ \A s \in sessions :
               s.userId # user =>
                 /\ GetChatHistoryOutcomes(user, s.id) = GetChatHistoryOutcomes(user, 0)
                 /\ DeleteChatSessionOutcomes(user, s.id) = DeleteChatSessionOutcomes(user, 0)
          /\ \A d \in docs :
               d.userId # user =>
                 DeleteDocumentOutcomes(user, d.id) = DeleteDocumentOutcomes(user, nextDocId))
  /\ [][NamesForeign(resp'.op, resp'.user, resp'.arg) =>
          /\ resp'.status \in {404, 500}
          /\ UNCHANGED <<docs, chunks, sessions, messages>>]_vars

\* A user asked to delete another user's session, which has messages, and was
\* answered not-found.
C13_Witness ==
  /\ resp.op = "delete_chat_session" /\ resp.status = 404
  /\ \E s \in sessions :
       /\ s.id = resp.arg[1] /\ s.userId # resp.user
       /\ MessagesOf(s.id) # <<>>

---------------------------------------------------------------------------
(* Properties of summarize, checked under SpecSummarize *)

\* C15: a summarize request whose summary_type is outside the allowed set
\* gets no summary and makes no call to the model.  Through the route it is
\* answered with the request model's validation error; to the service called
\* directly it raises ValueError once the documents are read, naming the
\* summary type when the caller owns one of the documents named.
C15_InvalidTypeRejectedBeforeModel ==
  (resp.op \in {"summarize_documents", "SummarizationService"} /\ resp.arg[2] \notin AllowedTypes) =>
    /\ resp.llm_calls = 0
    /\ resp.body[1] # "summary"
    /\ resp.op = "summarize_documents" =>
         resp.status = 422 /\ resp.body[1] = "ValidationError"
    /\ resp.op = "SummarizationService" =>
         /\ resp.body[1] = "ValueError" \/ resp.body = <<"Exception", "database">>
         /\ (resp.body[1] = "ValueError" /\ \E d \in docs : d.id \in resp.arg[1] /\ d.userId = resp.user)
              => resp.body[2] = "Invalid summary type"

\* The service was called directly with an unknown type for a document the
\* caller owns, and raised before any model call.
C15_Witness ==
  /\ resp.op = "SummarizationService" /\ resp.arg[2] \notin AllowedTypes
  /\ \E d \in docs : d.id \in resp.arg[1] /\ d.userId = resp.user
  /\ resp.body = <<"ValueError", "Invalid summary type">>
  /\ resp.llm_calls = 0

\* C30: a summary is built from exactly those requested documents that the
\* caller owns, so a requested document of another user adds nothing to it;
\* and a request none of whose ids is a document of the caller ends in an
\* error with no call to the model made.
OwnRequested == {d.id : d \in {x \in docs : x.id \in resp.arg[1] /\ x.userId = resp.user}}

C30_SummarizeOnlyOwnDocuments ==
  resp.op \in {"summarize_documents", "SummarizationService"} =>
    /\ resp.body[1] = "summary" =>
         /\ resp.body[3] = OwnRequested
         /\ \A id \in resp.body[3] : \E d \in docs : d.id = id /\ d.userId = resp.user
    /\ OwnRequested = {} =>
         /\ resp.llm_calls = 0
         /\ resp.body[1] \in {"ValueError", "Exception", "ValidationError"}
         /\ resp.op = "SummarizationService" =>
              resp.body \in {<<"ValueError", "No documents found">>, <<"Exception", "database">>}
         /\ resp.op = "summarize_documents" => resp.status \in {422, 500}

\* A request named a document of the caller and one of another user: the
\* summary was built from the caller's document alone.
C30_Witness ==
  /\ resp.op = "summarize_documents" /\ resp.status = 200
  /\ resp.body[1] = "summary"
  /\ \E d \in docs : d.id \in resp.arg[1] /\ d.userId # resp.user
  /\ \E d \in docs : d.id \in resp.arg[1] /\ d.userId = resp.user
  /\ resp.body[3] = OwnRequested /\ resp.body[3] # resp.arg[1] \cap RowIds(docs)

=============================================================================
